---- MODULE Spec2Model ----
(***************************************************************************)
(* Model of automations.py: the LogParser (status classification,         *)
(* execution-date extraction, summary message) and the AutomationCLI      *)
(* operations over the two SQLite tables `automations` and `logs`.        *)
(*                                                                         *)
(* Texts are TLC strings; a character is a string of length 1.            *)
(***************************************************************************)
EXTENDS Integers, Sequences, FiniteSets, TLC

VARIABLES
    automations,   \* table automations: name -> [schedule, behavior, last_status, last_run]
    logs,          \* table logs: rows in id (AUTOINCREMENT) order
    clock,         \* index into ClockTicks: what datetime.now() returns
    console,       \* the last operation called, its arguments and what it reported
    seeded,        \* how many times seed_mock_data has run
    text,          \* the log text handed to the parser
    info           \* what extract_key_info returned for text: <<>> before the call, <<dict>> after

vars == <<automations, logs, clock, console, seeded, text, info>>

\* Python's None / SQL NULL / a key absent from the info dict.
Null == "<None>"

----------------------------------------------------------------------------
(* Strings *)

Char(s, i) == SubSeq(s, i, i)

\* s[p : p+n], or "" when that slice would run past the end (n >= 1).
At(s, p, n) == IF p >= 1 /\ p + n - 1 <= Len(s) THEN SubSeq(s, p, p + n - 1) ELSE ""

Min(S) == CHOOSE m \in S : \A k \in S : m <= k

UpperCase == "ABCDEFGHIJKLMNOPQRSTUVWXYZÇÃÁÉÍÓÚÂÊÔÕÀ"
LowerCase == "abcdefghijklmnopqrstuvwxyzçãáéíóúâêôõà"

LowerMap ==
    [c \in {Char(UpperCase, i) : i \in 1..Len(UpperCase)} |->
        Char(LowerCase, CHOOSE i \in 1..Len(UpperCase) : Char(UpperCase, i) = c)]

lower_char(c) == IF c \in DOMAIN LowerMap THEN LowerMap[c] ELSE c

\* str.lower()
RECURSIVE lower(_)
lower(s) ==
    IF s = "" THEN ""
    ELSE IF Len(s) = 1 THEN lower_char(s)
    ELSE LET half == Len(s) \div 2
         IN  lower(SubSeq(s, 1, half)) \o lower(SubSeq(s, half + 1, Len(s)))

\* needle in haystack
Contains(haystack, needle) ==
    \E i \in 1..(Len(haystack) - Len(needle) + 1) : At(haystack, i, Len(needle)) = needle

Digits == {"0", "1", "2", "3", "4", "5", "6", "7", "8", "9"}

\* What str.strip() removes and what \s matches, among the characters of the inputs.
Whitespace == {" ", "\t", "\n", "\r"}

\* str.startswith
startswith(s, prefix) == At(s, 1, Len(prefix)) = prefix

RECURSIVE lstrip(_)
lstrip(s) == IF s # "" /\ Head(s) \in Whitespace THEN lstrip(Tail(s)) ELSE s

RECURSIVE rstrip(_)
rstrip(s) ==
    IF s # "" /\ Char(s, Len(s)) \in Whitespace THEN rstrip(SubSeq(s, 1, Len(s) - 1)) ELSE s

\* str.strip()
strip(s) == rstrip(lstrip(s))

\* str.replace(old, ""): every non-overlapping occurrence, left to right.
RECURSIVE remove_all(_, _)
remove_all(s, old) ==
    IF s = "" THEN ""
    ELSE IF startswith(s, old) THEN remove_all(SubSeq(s, Len(old) + 1, Len(s)), old)
    ELSE Head(s) \o remove_all(Tail(s), old)

\* str.split('\n'): the pieces between line breaks, empty ones included.
RECURSIVE split_lines(_)
split_lines(s) ==
    IF ~Contains(s, "\n") THEN <<s>>
    ELSE LET i == Min({k \in 1..Len(s) : Char(s, k) = "\n"})
         IN  <<SubSeq(s, 1, i - 1)>> \o split_lines(SubSeq(s, i + 1, Len(s)))

----------------------------------------------------------------------------
(* LogParser.__init__: the pattern tables *)

\* A pattern is a literal, optionally followed by \d+ .
Lit(s) == [lit |-> s, digits |-> FALSE]
LitDigits(s) == [lit |-> s, digits |-> TRUE]

success_patterns == <<
    Lit("Data da última atualização inserida na tabela de controle (sucesso)"),
    LitDigits("Linhas afetadas: "),
    Lit("Nova linha inserida na tabela CONTROL com sucesso"),
    Lit("Conexão aberta com sucesso"),
    Lit("Finalizado sem erros"),
    Lit("concluída com sucesso"),
    Lit("processados com sucesso") >>

\* failure_patterns without its last entry, r'erro'
failure_patterns_without_erro == <<
    Lit("Erro:"),
    Lit("Falha:"),
    Lit("Exception:"),
    Lit("Error:"),
    Lit("Timeout"),
    Lit("falhou") >>

failure_patterns == <<
    Lit("Erro:"),
    Lit("Falha:"),
    Lit("Exception:"),
    Lit("Error:"),
    Lit("Timeout"),
    Lit("falhou"),
    Lit("erro") >>

pending_patterns == <<
    Lit("Processamento iniciado"),
    Lit("Iniciando"),
    Lit("Aguardando"),
    Lit("Processando") >>

\* re.search(pattern, s, re.IGNORECASE), given low = lower(s).
re_search(pattern, low) ==
    LET lit == lower(pattern.lit)
    IN  \E i \in 1..(Len(low) - Len(lit) + 1) :
            /\ At(low, i, Len(lit)) = lit
            /\ pattern.digits => At(low, i + Len(lit), 1) \in Digits

any_match(patterns, low) == \E k \in DOMAIN patterns : re_search(patterns[k], low)

----------------------------------------------------------------------------
(* LogParser.determine_status *)

\* determine_status with no default: "NONE" when no pattern matches
determine_status_no_default(log_content) ==
    IF any_match(success_patterns, lower(log_content)) THEN "OK"
    ELSE IF any_match(failure_patterns, lower(log_content)) THEN "FAIL"
    ELSE IF any_match(pending_patterns, lower(log_content)) THEN "PENDING"
    ELSE "NONE"

\* determine_status with the failure patterns tried before the success patterns
determine_status_failure_first(log_content) ==
    IF any_match(failure_patterns, lower(log_content)) THEN "FAIL"
    ELSE IF any_match(success_patterns, lower(log_content)) THEN "OK"
    ELSE IF any_match(pending_patterns, lower(log_content)) THEN "PENDING"
    ELSE "OK"

\* determine_status with the pending patterns tried before the failure patterns
determine_status_pending_first(log_content) ==
    IF any_match(success_patterns, lower(log_content)) THEN "OK"
    ELSE IF any_match(pending_patterns, lower(log_content)) THEN "PENDING"
    ELSE IF any_match(failure_patterns, lower(log_content)) THEN "FAIL"
    ELSE "OK"

\* determine_status without the loop over the pending patterns
determine_status_no_pending(log_content) ==
    IF any_match(success_patterns, lower(log_content)) THEN "OK"
    ELSE IF any_match(failure_patterns, lower(log_content)) THEN "FAIL"
    ELSE IF ~Contains(lower(log_content), "erro") /\ ~Contains(lower(log_content), "error")
    THEN "OK" ELSE "FAIL"

\* determine_status with the test of the default inverted
determine_status_default_inverted(log_content) ==
    IF any_match(success_patterns, lower(log_content)) THEN "OK"
    ELSE IF any_match(failure_patterns, lower(log_content)) THEN "FAIL"
    ELSE IF any_match(pending_patterns, lower(log_content)) THEN "PENDING"
    ELSE IF ~Contains(lower(log_content), "erro") /\ ~Contains(lower(log_content), "error")
    THEN "FAIL" ELSE "OK"

determine_status(log_content) ==
    LET log_lower == lower(log_content)
    IN  IF any_match(success_patterns, log_lower) THEN "OK"
        ELSE IF any_match(failure_patterns, log_lower) THEN "FAIL"
        ELSE IF any_match(pending_patterns, log_lower) THEN "PENDING"
        ELSE IF ~Contains(log_lower, "erro") /\ ~Contains(log_lower, "error") THEN "OK"
        ELSE "FAIL"

----------------------------------------------------------------------------
(* datetime.strptime / strftime, as parse_execution_date uses them *)

Digit(n) == Char("0123456789", n + 1)
DigitVal(c) == CHOOSE n \in 0..9 : Digit(n) = c
Pad2(n) == Digit(n \div 10) \o Digit(n % 10)

\* The tokens of a directive and the value each stands for. strptime matches with
\* re.IGNORECASE, so the data string is lowered first and the names are lower case.
NameTable(names) == {<<names[i], i>> : i \in DOMAIN names}
\* one or two digits, lo..hi: e.g. %I is 1[0-2]|0[1-9]|[1-9]
NumTable(lo, hi) ==
    {<<Pad2(n), n>> : n \in lo..hi} \cup {<<Digit(n), n>> : n \in {k \in lo..hi : k <= 9}}

Dir_a == NameTable(<<"mon", "tue", "wed", "thu", "fri", "sat", "sun">>)
Dir_b == NameTable(<<"jan", "feb", "mar", "apr", "may", "jun",
                     "jul", "aug", "sep", "oct", "nov", "dec">>)
\* %d: 3[0-1]|[1-2]\d|0[1-9]|[1-9]| [1-9]
Dir_d == NumTable(1, 31) \cup {<<" " \o Digit(n), n>> : n \in 1..9}
Dir_m == NumTable(1, 12)
Dir_I == NumTable(1, 12)
Dir_M == NumTable(0, 59)
\* %S: 6[0-1]|[0-5]\d|\d
Dir_S == NumTable(0, 61)
Dir_p == {<<"am", 0>>, <<"pm", 1>>}

\* A partial match: the next position to read and the values converted so far.
ParseStart == {[pos |-> 1, v |-> <<>>]}

\* a directive of the format
directive(P, d, table) ==
    {[pos |-> m[1].pos + Len(m[2][1]), v |-> Append(m[1].v, m[2][2])] :
        m \in {pt \in P \X table : At(d, pt[1].pos, Len(pt[2][1])) = pt[2][1]}}

\* %Y: \d\d\d\d
directive_Y(P, d) ==
    {[pos |-> x.pos + 4,
      v |-> Append(x.v, 1000 * DigitVal(Char(d, x.pos)) + 100 * DigitVal(Char(d, x.pos + 1))
                          + 10 * DigitVal(Char(d, x.pos + 2)) + DigitVal(Char(d, x.pos + 3)))] :
        x \in {y \in P : \A k \in 0..3 : At(d, y.pos + k, 1) \in Digits}}

\* a literal character of the format
literal(P, d, s) ==
    {[pos |-> x.pos + Len(s), v |-> x.v] : x \in {y \in P : At(d, y.pos, Len(s)) = s}}

\* a blank of the format: \s+
spaces(P, d) ==
    UNION {{[pos |-> q, v |-> x.v] :
                q \in {r \in (x.pos + 1)..(Len(d) + 1) :
                          \A k \in x.pos..(r - 1) : Char(d, k) \in Whitespace}} : x \in P}

\* The match must consume the whole string ("unconverted data remains" otherwise).
complete(P, d) == {x.v : x \in {y \in P : y.pos = Len(d) + 1}}

\* "%a %b %d %I:%M:%S %p %Y": the values as <<a, b, d, I, M, S, p, Y>>
match_format1(data_string) ==
    LET d  == lower(data_string)
        p1 == spaces(directive(ParseStart, d, Dir_a), d)
        p2 == spaces(directive(p1, d, Dir_b), d)
        p3 == spaces(directive(p2, d, Dir_d), d)
        p4 == literal(directive(p3, d, Dir_I), d, ":")
        p5 == literal(directive(p4, d, Dir_M), d, ":")
        p6 == spaces(directive(p5, d, Dir_S), d)
        p7 == spaces(directive(p6, d, Dir_p), d)
    IN  complete(directive_Y(p7, d), d)

\* "%m/%d/%Y %I:%M:%S %p": the values as <<m, d, Y, I, M, S, p>>
match_format2(data_string) ==
    LET d  == lower(data_string)
        p1 == literal(directive(ParseStart, d, Dir_m), d, "/")
        p2 == literal(directive(p1, d, Dir_d), d, "/")
        p3 == spaces(directive_Y(p2, d), d)
        p4 == literal(directive(p3, d, Dir_I), d, ":")
        p5 == literal(directive(p4, d, Dir_M), d, ":")
        p6 == spaces(directive(p5, d, Dir_S), d)
    IN  complete(directive(p6, d, Dir_p), d)

is_leap(y) == y % 4 = 0 /\ (y % 100 # 0 \/ y % 400 = 0)
days_in_month(y, m) ==
    IF m = 2 THEN (IF is_leap(y) THEN 29 ELSE 28)
    ELSE IF m \in {4, 6, 9, 11} THEN 30 ELSE 31

ValueError == [ok |-> FALSE]

\* The datetime strptime builds from the converted values: %I with %p gives the
\* hour; a year 0, a day past the month's end or a second above 59 is a ValueError.
make_datetime(Y, m, d, I, M, S, p) ==
    IF Y >= 1 /\ d <= days_in_month(Y, m) /\ S <= 59
    THEN [ok |-> TRUE, year |-> Y, month |-> m, day |-> d,
          hour |-> IF p = 0 THEN (IF I = 12 THEN 0 ELSE I) ELSE (IF I = 12 THEN 12 ELSE I + 12),
          minute |-> M, second |-> S]
    ELSE ValueError

\* the values of a match of format 1, <<a, b, d, I, M, S, p, Y>>, as a datetime
datetime_format1(v) == make_datetime(v[8], v[2], v[3], v[4], v[5], v[6], v[7])

\* the values of a match of format 2, <<m, d, Y, I, M, S, p>>, as a datetime
datetime_format2(v) == make_datetime(v[3], v[1], v[2], v[4], v[5], v[6], v[7])

\* no match: "time data does not match format"
datetimes_or_error(found) == IF found = {} THEN {ValueError} ELSE found

\* datetime.strptime(s, "%a %b %d %I:%M:%S %p %Y"); the weekday is matched and dropped.
strptime_format1(s) ==
    CHOOSE dt \in datetimes_or_error({datetime_format1(v) : v \in match_format1(s)}) : TRUE

\* datetime.strptime(s, "%m/%d/%Y %I:%M:%S %p")
strptime_format2(s) ==
    CHOOSE dt \in datetimes_or_error({datetime_format2(v) : v \in match_format2(s)}) : TRUE

\* %Y writes the year in decimal with no padding (the C library's strftime)
RECURSIVE Decimal(_)
Decimal(n) == IF n < 10 THEN Digit(n) ELSE Decimal(n \div 10) \o Digit(n % 10)

\* strftime("%Y-%m-%d %H:%M:%S")
strftime(dt) ==
    Decimal(dt.year) \o "-" \o Pad2(dt.month) \o "-" \o Pad2(dt.day) \o " "
        \o Pad2(dt.hour) \o ":" \o Pad2(dt.minute) \o ":" \o Pad2(dt.second)

----------------------------------------------------------------------------
(* LogParser.parse_execution_date *)

\* r'=== Execução: (.+?) ===' with re.IGNORECASE
HeaderPrefix == "=== Execução: "
HeaderSuffix == " ==="

\* execution_header_pattern.search(s).group(1), or Null without a match: the
\* leftmost start, and from it the shortest non-empty group with no line break.
execution_header_pattern(s) ==
    LET low == lower(s)
        pre == lower(HeaderPrefix)
        n   == Len(pre)
        ends(i) == {j \in (i + n + 1)..Len(s) :
                       /\ At(low, j, Len(HeaderSuffix)) = HeaderSuffix
                       /\ ~Contains(SubSeq(s, i + n, j - 1), "\n")}
        starts == {i \in 1..Len(s) : At(low, i, n) = pre /\ ends(i) # {}}
    IN  IF starts = {} THEN Null
        ELSE LET i == Min(starts) IN SubSeq(s, i + n, Min(ends(i)) - 1)

\* parse_execution_date with the second format tried on the cleaned string too
parse_execution_date_clean_twice(log_content) ==
    LET group1 == execution_header_pattern(log_content)
    IN  IF group1 = Null THEN Null
        ELSE LET date_str_clean == remove_all(strip(group1), " -03")
                 first          == strptime_format1(date_str_clean)
             IN  IF first.ok THEN strftime(first)
                 ELSE LET second == strptime_format2(date_str_clean)
                      IN  IF second.ok THEN strftime(second) ELSE Null

parse_execution_date(log_content) ==
    LET group1 == execution_header_pattern(log_content)
    IN  IF group1 = Null THEN Null
        ELSE LET date_str       == strip(group1)
                 date_str_clean == remove_all(date_str, " -03")
                 first          == strptime_format1(date_str_clean)
             IN  IF first.ok THEN strftime(first)
                 ELSE LET second == strptime_format2(date_str)
                      IN  IF second.ok THEN strftime(second) ELSE Null

----------------------------------------------------------------------------
(* LogParser.extract_key_info *)

NoiseThreshold == 10
MessageLimit == 100

\* is_significant with len(line) >= 10
is_significant_from_ten(line) ==
    /\ line # ""
    /\ ~startswith(line, "===")
    /\ ~startswith(line, "lsfnjdn")
    /\ Len(line) >= NoiseThreshold

\* the test of the loop body on a stripped line
is_significant(line) ==
    /\ line # ""
    /\ ~startswith(line, "===")
    /\ ~startswith(line, "lsfnjdn")
    /\ Len(line) > NoiseThreshold

\* truncate with len(line) >= 100
truncate_from_limit(line) ==
    IF Len(line) >= MessageLimit THEN SubSeq(line, 1, MessageLimit) \o "..." ELSE line

\* the value the loop stores under 'message' for the line it stops at
truncate(line) ==
    IF Len(line) > MessageLimit THEN SubSeq(line, 1, MessageLimit) \o "..." ELSE line

\* the loop over the lines: the first significant one, truncated; Null if none
summary_message(log_content) ==
    LET lines == split_lines(log_content)
        hits  == {i \in DOMAIN lines : is_significant(strip(lines[i]))}
    IN  IF hits = {} THEN Null ELSE truncate(strip(lines[Min(hits)]))

\* a dict with the one key k, or the empty dict when value is absent
entry(k, value) == IF value = Null THEN [x \in {} |-> Null] ELSE [x \in {k} |-> value]

\* extract_key_info of a parser that remembers its calls: the message is looked
\* for on the first call only
extract_key_info_remembering(log_content) ==
    entry("execution_date", parse_execution_date(log_content))
        @@ [x \in {"status"} |-> determine_status(log_content)]
        @@ entry("message", IF info = <<>> THEN summary_message(log_content) ELSE Null)

\* The info dict: 'status' always, 'execution_date' and 'message' when found.
extract_key_info(log_content) ==
    entry("execution_date", parse_execution_date(log_content))
        @@ [x \in {"status"} |-> determine_status(log_content)]
        @@ entry("message", summary_message(log_content))

\* dict.get(key, default)
get(d, key, default) == IF key \in DOMAIN d THEN d[key] ELSE default

----------------------------------------------------------------------------
(* The log texts given to the parser: up to MaxFrags pieces, each a marker, *)
(* a header, a decoration, a line break or a record line of 90 characters,  *)
(* in any order.                                                            *)

MaxFrags == 2

\* a record line of 90 characters with no marker in it
RecordLine ==
    "Registro 000145 | Cliente: Comercial Silva Ltda | Pedido 2025-000981 | Valor: 1.250,00 | >"

Fragments == {
    "Finalizado sem erros",
    "Linhas afetadas: ",
    "12",
    "ERRO: falha na validação",
    "Timeout",
    "Processando",
    "0 errors",
    "tudo bem",
    "DataCad: 1",
    RecordLine,
    "\n",
    " \t ",
    "=== fim ===\n",
    "lsfnjdn5/3/2024 9:28:21 AM\n",
    "=== Execução: Wed Aug 20 09:23:03 AM -03 2025 ===\n",
    "=== EXECUÇÃO: 8/20/2025 9:23:06 pm ===\n",
    "=== Execução: 8/20/2025 9:23:06 -03 AM ===",
    "=== Execução: Fri Feb 30 12:00:00 PM 2025 ===\n" }

RECURSIVE TextsOf(_)
TextsOf(n) ==
    IF n = 0 THEN {""}
    ELSE LET shorter == TextsOf(n - 1)
         IN  shorter \cup {t \o f : t \in shorter, f \in Fragments}

Texts == TextsOf(MaxFrags)

----------------------------------------------------------------------------
(* AutomationCLI: the two tables and the sample data of seed_mock_data *)

mock_automations == <<
    <<"C1", "0 8 * * *", "Import de Vendas - Execução diária">>,
    <<"CAT1", "0 8 * * *", "Categorização - Execução diária">>,
    <<"NC1", "0 8 * * *", "Notas de Crédito - Execução diária">>,
    <<"PG1", "0 8 * * *", "Pagamentos - Execução diária">>,
    <<"PR2", "0 8 * * *", "Processamento de Pedidos 2 - Execução diária">>,
    <<"CR1", "0 8-17 * * *", "Controle de Receitas - A cada hora">>,
    <<"NF1", "0 8-17 * * *", "Notas Fiscais 1 - A cada hora">>,
    <<"NF2", "0 8-17 * * *", "Notas Fiscais 2 - A cada hora">>,
    <<"P1", "0 8-17 * * *", "Produtos 1 - A cada hora">>,
    <<"P2", "0 8-17 * * *", "Produtos 2 - A cada hora">>,
    <<"EM1", "0 8,11,14,17 * * *", "Estoque e Movimentação - A cada 1h30">>,
    <<"EM1", "30 9,12,15 * * *", "Estoque e Movimentação - A cada 1h30">>,
    <<"ODC1", "0 8,10,12,14,16 * * *", "Ordens de Compra 1 - A cada 2h">>,
    <<"ODC2", "0 8,10,12,14,16 * * *", "Ordens de Compra 2 - A cada 2h">>,
    <<"ORC1", "0 8,10,12,14,16 * * *", "Ordens de Recebimento - A cada 2h">>,
    <<"PR1", "0 8,10,12,14,16 * * *", "Processamento de Pedidos 1 - A cada 2h">>,
    <<"V1", "0 9 * * *", "Validação - Execução diária">> >>

\* a row of table logs; its id is its position in the table
LogRow(automation, timestamp, status, message) ==
    [automation |-> automation, timestamp |-> timestamp, status |-> status, message |-> message]

mock_logs == <<
    LogRow("C1", "2025-08-29 08:00:00", "OK", "Import de vendas concluído. 156 registros processados"),
    LogRow("C1", "2025-08-28 08:00:00", "OK", "Import de vendas concluído. 142 registros processados"),
    LogRow("CAT1", "2025-08-29 08:00:00", "OK", "Categorização concluída. 89 produtos categorizados"),
    LogRow("CR1", "2025-08-29 10:00:01", "OK", "Conta inserida/atualizada com sucesso na tabela CR1!"),
    LogRow("CR1", "2025-08-29 09:00:01", "OK", "Conta inserida/atualizada com sucesso na tabela CR1!"),
    LogRow("CR1", "2025-08-29 08:00:01", "OK", "Conta inserida/atualizada com sucesso na tabela CR1!"),
    LogRow("NF1", "2025-08-29 10:00:00", "OK", "15 notas fiscais processadas com sucesso"),
    LogRow("NF1", "2025-08-29 09:00:00", "OK", "12 notas fiscais processadas com sucesso"),
    LogRow("NF2", "2025-08-29 10:00:00", "OK", "8 notas fiscais processadas com sucesso"),
    LogRow("NF2", "2025-08-29 09:00:00", "FAIL", "Erro: Falha na validação de dados"),
    LogRow("EM1", "2025-08-29 09:30:00", "OK", "Movimentação de estoque concluída. 45 itens atualizados"),
    LogRow("EM1", "2025-08-29 08:00:00", "OK", "Movimentação de estoque concluída. 38 itens atualizados"),
    LogRow("ODC1", "2025-08-29 10:00:00", "OK", "Ordens de compra processadas. 12 ordens criadas"),
    LogRow("ODC1", "2025-08-29 08:00:00", "OK", "Ordens de compra processadas. 8 ordens criadas"),
    LogRow("V1", "2025-08-29 09:00:00", "OK", "Validação concluída. 0 inconsistências encontradas") >>

\* SQLite compares two TEXT values byte by byte; the characters of a timestamp in
\* the order of their codes.
CodeOrder == " -0123456789:"
Code(c) == CHOOSE i \in 1..Len(CodeOrder) : Char(CodeOrder, i) = c

\* a < b on TEXT
RECURSIVE text_less(_, _)
text_less(a, b) ==
    IF b = "" THEN FALSE
    ELSE IF a = "" THEN TRUE
    ELSE IF Head(a) = Head(b) THEN text_less(Tail(a), Tail(b))
    ELSE Code(Head(a)) < Code(Head(b))

\* job_exists with the check left out
job_exists_unchecked(table, name) == TRUE

\* SELECT name FROM automations WHERE name = ? ... fetchone()
job_exists(table, name) == name \in DOMAIN table

\* INSERT OR REPLACE INTO automations (...) VALUES (name, schedule, behavior, "NONE", None)
insert_or_replace(table, row) ==
    [n \in DOMAIN table \cup {row[1]} |->
        IF n = row[1]
        THEN [schedule |-> row[2], behavior |-> row[3], last_status |-> "NONE", last_run |-> Null]
        ELSE table[n]]

RECURSIVE insert_or_replace_many(_, _)
insert_or_replace_many(table, rows) ==
    IF rows = <<>> THEN table
    ELSE insert_or_replace_many(insert_or_replace(table, Head(rows)), Tail(rows))

\* insert_log that keeps only the newest row of an automation
insert_log_replacing(rows, row) ==
    Append(SelectSeq(rows, LAMBDA r : r.automation # row.automation), row)

\* INSERT INTO logs (automation, timestamp, status, message) VALUES (?, ?, ?, ?)
insert_log(rows, row) == Append(rows, row)

\* update_status that sets last_status and leaves last_run
update_status_without_run(table, name, status, timestamp) ==
    [n \in DOMAIN table |->
        IF n = name THEN [table[n] EXCEPT !.last_status = status] ELSE table[n]]

\* update_status with no WHERE clause: every row is written
update_status_all_rows(table, name, status, timestamp) ==
    [n \in DOMAIN table |->
        [table[n] EXCEPT !.last_status = status, !.last_run = timestamp]]

\* UPDATE automations SET last_status = ?, last_run = ? WHERE name = ?
update_status(table, name, status, timestamp) ==
    [n \in DOMAIN table |->
        IF n = name
        THEN [table[n] EXCEPT !.last_status = status, !.last_run = timestamp]
        ELSE table[n]]

\* update_status_if_newer with the test on last_run guarding last_run alone
update_status_if_newer_run_only(table, name, status, timestamp) ==
    [n \in DOMAIN table |->
        IF n # name THEN table[n]
        ELSE IF table[n].last_run = Null \/ text_less(table[n].last_run, timestamp)
        THEN [table[n] EXCEPT !.last_status = status, !.last_run = timestamp]
        ELSE [table[n] EXCEPT !.last_status = status]]

\* UPDATE automations SET last_status = ?, last_run = ?
\* WHERE name = ? AND (last_run IS NULL OR last_run < ?)
update_status_if_newer(table, name, status, timestamp) ==
    [n \in DOMAIN table |->
        IF n = name /\ (table[n].last_run = Null \/ text_less(table[n].last_run, timestamp))
        THEN [table[n] EXCEPT !.last_status = status, !.last_run = timestamp]
        ELSE table[n]]

\* the loop of seed_mock_data over mock_logs
RECURSIVE update_from_logs(_, _)
update_from_logs(table, rows) ==
    IF rows = <<>> THEN table
    ELSE LET r == Head(rows)
         IN  update_from_logs(
                 update_status_if_newer(table, r.automation, r.status, r.timestamp),
                 Tail(rows))

----------------------------------------------------------------------------
(* The inputs of the operations *)

\* how many rows the operations may add to table logs beyond those seed_mock_data adds
MaxAppends == 2
\* how many times seed_mock_data may run
MaxSeeds == 1

\* the automation names given on the command line; X9 is in no sample data
JobInputs == {"C1", "NF2", "X9"}

\* the log texts given to add_real_log
LogInputs == {
    "=== Execução: Wed Aug 20 09:23:03 AM -03 2025 ===\nlsfnjdn5/3/2024 9:28:21 AM\nConexão aberta com sucesso.\nLinhas afetadas: 1",
    "ERRO: falha na validação",
    "=== Execução: 12/25/2025 9:23:06 PM ===\nProcessando" }

\* the values datetime.now().strftime("%Y-%m-%d %H:%M:%S") takes, in order
ClockTicks == <<"2025-08-29 09:15:00", "2025-09-01 10:00:00">>

now == ClockTicks[clock]

\* the date filters and line counts of the status and tail commands
DateFilters == {Null, "2025-08-29"}
TailLines == {0, 10}
HistoryLimit == 50

\* rows of table logs that seed_mock_data did not add
appended == Len(logs) - seeded * Len(mock_logs)

\* what an operation leaves on the console: the call and what it reported
Report(op, arg, out) == [op |-> op, arg |-> arg, out |-> out]

----------------------------------------------------------------------------
(* AutomationCLI: the operations *)

\* __init__ / init_database on a new database file: both tables empty
StoreInit ==
    /\ automations = [n \in {} |-> Null]
    /\ logs = <<>>
    /\ clock = 1
    /\ seeded = 0
    /\ console = Report("init_database", Null, "ok")

RECURSIVE insert_logs(_, _)
insert_logs(rows, new) ==
    IF new = <<>> THEN rows ELSE insert_logs(insert_log(rows, Head(new)), Tail(new))

seed_mock_data ==
    /\ seeded < MaxSeeds
    /\ automations' = update_from_logs(insert_or_replace_many(automations, mock_automations),
                                       mock_logs)
    /\ logs' = insert_logs(logs, mock_logs)
    /\ seeded' = seeded + 1
    /\ console' = Report("seed_mock_data", Null, "ok")
    /\ UNCHANGED <<clock, text, info>>

\* self.log_parser.extract_key_info, tabulated over the texts add_real_log is given
log_parser == [log_content \in LogInputs |-> extract_key_info(log_content)]

add_real_log(automation_name, log_content) ==
    /\ appended < MaxAppends
    /\ IF ~job_exists(automations, automation_name)
       THEN /\ console' = Report("add_real_log", automation_name, "not_found")
            /\ UNCHANGED <<automations, logs>>
       ELSE LET parsed    == log_parser[log_content]
                timestamp == get(parsed, "execution_date", now)
                status    == get(parsed, "status", "NONE")
                message   == get(parsed, "message", "Log processado automaticamente")
            IN  /\ logs' = insert_log(logs, LogRow(automation_name, timestamp, status, message))
                /\ automations' = update_status(automations, automation_name, status, timestamp)
                /\ console' = Report("add_real_log", automation_name, "ok")
    /\ UNCHANGED <<clock, seeded, text, info>>

\* the scenario force_execution simulates for a name: <<status, message>>
mock_execution(automation_name, timestamp) ==
    IF Contains(automation_name, "C1")
    THEN <<"OK", "Processando dados... Inseridos 145 registros. Finalizado sem erros">>
    ELSE IF Contains(automation_name, "C2")
    THEN <<"OK", "Sincronização concluída. 67 produtos atualizados">>
    ELSE IF Contains(automation_name, "C3")
    THEN <<"PENDING", "Processamento iniciado... Aguardando recursos">>
    ELSE <<"OK", "Execução forçada concluída com sucesso em " \o timestamp>>

force_execution(automation_name) ==
    /\ appended < MaxAppends
    /\ IF ~job_exists(automations, automation_name)
       THEN /\ console' = Report("force_execution", automation_name, "not_found")
            /\ UNCHANGED <<automations, logs>>
       ELSE LET timestamp == now
                outcome   == mock_execution(automation_name, timestamp)
                status    == outcome[1]
                message   == outcome[2]
            IN  /\ logs' = insert_log(logs, LogRow(automation_name, timestamp, status, message))
                /\ automations' = update_status(automations, automation_name, status, timestamp)
                /\ console' = Report("force_execution", automation_name, "ok")
    /\ UNCHANGED <<clock, seeded, text, info>>

show_all_status ==
    /\ console' = Report("show_all_status", Null,
                         IF DOMAIN automations = {} THEN "empty" ELSE "table")
    /\ UNCHANGED <<automations, logs, clock, seeded, text, info>>

\* DATE(timestamp) of a timestamp in the canonical form
DATE(timestamp) == SubSeq(timestamp, 1, 10)

\* SELECT ... FROM logs WHERE automation = ? [AND DATE(timestamp) = ?] ... LIMIT ?:
\* how many rows come back
selected(automation_name, date_filter, limit) ==
    LET hits == {i \in 1..Len(logs) :
                    /\ logs[i].automation = automation_name
                    /\ date_filter # Null => DATE(logs[i].timestamp) = date_filter}
    IN  IF Cardinality(hits) > limit THEN limit ELSE Cardinality(hits)

show_automation_history(automation_name, date_filter) ==
    /\ console' = Report("show_automation_history", automation_name,
                         IF ~job_exists(automations, automation_name) THEN "not_found"
                         ELSE IF selected(automation_name, date_filter, HistoryLimit) = 0
                         THEN "no_logs" ELSE "table")
    /\ UNCHANGED <<automations, logs, clock, seeded, text, info>>

tail_logs(automation_name, lines) ==
    /\ console' = Report("tail_logs", automation_name,
                         IF ~job_exists(automations, automation_name) THEN "not_found"
                         ELSE IF selected(automation_name, Null, lines) = 0
                         THEN "no_logs" ELSE "lines")
    /\ UNCHANGED <<automations, logs, clock, seeded, text, info>>

\* time passes between two commands
Tick ==
    /\ clock < Len(ClockTicks)
    /\ clock' = clock + 1
    /\ UNCHANGED <<automations, logs, console, seeded, text, info>>

\* test_log_parsing: the parser applied to a text, nothing stored
test_log_parsing ==
    /\ info = <<>>
    /\ info' = <<extract_key_info(text)>>
    /\ UNCHANGED <<automations, logs, clock, console, seeded, text>>

\* how many times the parser may be called on text
MaxCalls == 2

\* the texts of repeated calls
RepeatTexts == LogInputs \cup {"", "12", RecordLine \o "Processando"}

\* LogParser(): another instance, with the same pattern tables
new_LogParser ==
    /\ console' = Report("LogParser", Null, "ok")
    /\ UNCHANGED <<automations, logs, clock, seeded, text, info>>

\* one more call of extract_key_info on text; info keeps every result, in order
parse_log ==
    /\ Len(info) < MaxCalls
    /\ info' = Append(info, extract_key_info(text))
    /\ UNCHANGED <<automations, logs, clock, console, seeded, text>>

\* a call of extract_key_info on another text
parse_other_log(log_content) ==
    /\ log_content # text
    /\ console' = Report("extract_key_info", log_content,
                         extract_key_info(log_content)["status"])
    /\ UNCHANGED <<automations, logs, clock, seeded, text, info>>

----------------------------------------------------------------------------
(* Specifications *)

\* The commands over the store.
Init ==
    /\ StoreInit
    /\ text = ""
    /\ info = <<>>

Next ==
    \/ seed_mock_data
    \/ \E name \in JobInputs, log \in LogInputs : add_real_log(name, log)
    \/ \E name \in JobInputs : force_execution(name)
    \/ show_all_status
    \/ \E name \in JobInputs, date \in DateFilters : show_automation_history(name, date)
    \/ \E name \in JobInputs, lines \in TailLines : tail_logs(name, lines)
    \/ Tick

Spec == Init /\ [][Next]_vars

\* The parser alone, over every text of Texts.
InitParser ==
    /\ StoreInit
    /\ text \in Texts
    /\ info = <<>>

NextParser == test_log_parsing

SpecParser == InitParser /\ [][NextParser]_vars

\* The parser called again and again: on one text, on other texts in between, on
\* new instances, at different times.
InitRepeat ==
    /\ StoreInit
    /\ text \in RepeatTexts
    /\ info = <<>>

NextRepeat ==
    \/ parse_log
    \/ \E log_content \in RepeatTexts : parse_other_log(log_content)
    \/ new_LogParser
    \/ Tick

SpecRepeat == InitRepeat /\ [][NextRepeat]_vars

----------------------------------------------------------------------------
(* Properties of the parser, under SpecParser *)

\* the parser has been called on text
Called == info # <<>>
\* the dict it returned
Returned == info[1]

HasSuccessMarker == any_match(success_patterns, lower(text))
HasFailureMarker == any_match(failure_patterns, lower(text))
HasPendingMarker == any_match(pending_patterns, lower(text))

\* C1: for every text the returned dict has a 'status' key, and its value is one
\* of OK, FAIL, PENDING.
C1_StatusTotal ==
    Called => /\ "status" \in DOMAIN Returned
              /\ Returned["status"] \in {"OK", "FAIL", "PENDING"}

\* a text with no marker, no header and no significant line: the dict is the status alone
C1_Witness == Called /\ text = "12" /\ DOMAIN Returned = {"status"}

\* C2: a text with a success marker is OK, whatever failure or pending markers it
\* also holds and wherever they stand.
C2_SuccessPrecedence == Called /\ HasSuccessMarker => Returned["status"] = "OK"

\* a failure marker, then a success marker
C2_Witness ==
    /\ Called
    /\ text = "ERRO: falha na validação" \o "Finalizado sem erros"
    /\ Returned["status"] = "OK"

\* C3: a text with no success marker and a failure marker is FAIL, also with a
\* pending marker in it.
C3_FailureBeforePending ==
    Called /\ ~HasSuccessMarker /\ HasFailureMarker => Returned["status"] = "FAIL"

\* a pending marker, then a failure marker
C3_Witness ==
    /\ Called
    /\ text = "Processando" \o "Timeout"
    /\ HasPendingMarker
    /\ Returned["status"] = "FAIL"

\* C4: a text with no success marker, no failure marker and a pending marker is
\* PENDING.
C4_Pending ==
    Called /\ ~HasSuccessMarker /\ ~HasFailureMarker /\ HasPendingMarker
        => Returned["status"] = "PENDING"

C4_Witness ==
    /\ Called
    /\ text = "tudo bem" \o "Processando"
    /\ Returned["status"] = "PENDING"

\* C5: a text with no marker of any kind is OK when it holds neither "erro" nor
\* "error" in any letter case, and FAIL otherwise; the empty text is OK.
C5_DefaultFallback ==
    Called /\ ~HasSuccessMarker /\ ~HasFailureMarker /\ ~HasPendingMarker
        => Returned["status"] =
              IF ~Contains(lower(text), "erro") /\ ~Contains(lower(text), "error")
              THEN "OK" ELSE "FAIL"

C5_Witness == Called /\ text = "" /\ Returned["status"] = "OK"

\* C9: the execution date is absent without a header; with one it is format 1 of
\* the date string with " -03" removed when that parses, else format 2 of the date
\* string as found when that parses, else absent; a date that is present is in the
\* 19 characters of the canonical form.
C9_ExecutionDate ==
    Called =>
        LET found    == execution_header_pattern(text)
            date_str == strip(found)
            cleaned  == remove_all(date_str, " -03")
            date     == get(Returned, "execution_date", Null)
        IN  /\ date = IF found = Null THEN Null
                      ELSE IF strptime_format1(cleaned).ok
                      THEN strftime(strptime_format1(cleaned))
                      ELSE IF strptime_format2(date_str).ok
                      THEN strftime(strptime_format2(date_str))
                      ELSE Null
            /\ date # Null => Len(date) = 19

\* a header that only format 2 parses
C9_Witness ==
    /\ Called
    /\ text = "=== EXECUÇÃO: 8/20/2025 9:23:06 pm ===\n"
    /\ ~strptime_format1("8/20/2025 9:23:06 pm").ok
    /\ Returned["execution_date"] = "2025-08-20 21:23:06"

\* C10: the message comes from the first line, in order, whose trimmed form is not
\* empty, does not begin with "===" or "lsfnjdn" and is longer than 10 characters:
\* it starts with (up to 100 characters of) that line; with no such line there is
\* no message.
C10_FirstSignificantLine ==
    Called =>
        LET lines == split_lines(text)
            qualifying == {i \in DOMAIN lines :
                              /\ strip(lines[i]) # ""
                              /\ At(strip(lines[i]), 1, 3) # "==="
                              /\ At(strip(lines[i]), 1, 7) # "lsfnjdn"
                              /\ Len(strip(lines[i])) > 10}
        IN  IF qualifying = {} THEN "message" \notin DOMAIN Returned
            ELSE LET line == strip(lines[Min(qualifying)])
                     kept == IF Len(line) > 100 THEN 100 ELSE Len(line)
                 IN  /\ "message" \in DOMAIN Returned
                     /\ At(Returned["message"], 1, kept) = SubSeq(line, 1, kept)

\* a decoration line skipped, then a line of 11 characters
C10_Witness ==
    /\ Called
    /\ text = "=== fim ===\n" \o "Processando"
    /\ Returned["message"] = "Processando"

\* the trimmed lines of text that pass the tests of the loop, by position
Trimmed(i) == strip(split_lines(text)[i])

Qualifying ==
    {i \in DOMAIN split_lines(text) :
        /\ Trimmed(i) # ""
        /\ At(Trimmed(i), 1, 3) # "==="
        /\ At(Trimmed(i), 1, 7) # "lsfnjdn"
        /\ Len(Trimmed(i)) > 10}

\* C11: the message has at most 103 characters: a qualifying line of more than
\* 100 characters gives its first 100 characters followed by "...", and one of
\* 100 characters or fewer gives the line unchanged.
C11_MessageLength ==
    Called /\ "message" \in DOMAIN Returned =>
        /\ Len(Returned["message"]) <= 103
        /\ Qualifying # {}
        /\ LET line == Trimmed(Min(Qualifying))
           IN  Returned["message"] =
                   IF Len(line) > 100 THEN SubSeq(line, 1, 100) \o "..." ELSE line

\* a line of 101 characters: 100 of them kept, then the ellipsis
C11_Witness ==
    /\ Called
    /\ text = RecordLine \o "Processando"
    /\ Len(text) = 101
    /\ Len(Returned["message"]) = 103
    /\ Returned["message"] = RecordLine \o "Processand" \o "..."

\* the lines of text that hold an execution header; the header cannot run over a
\* line break, so the one parse_execution_date matches is in the first of them
HeaderLines ==
    {i \in DOMAIN split_lines(text) : execution_header_pattern(split_lines(text)[i]) # Null}

\* C12: the message, when present, is never the line that holds the execution
\* header parse_execution_date matches (in full, or cut at 100 characters), and
\* never begins with the "===" decoration.
C12_MessageExcludesHeader ==
    Called /\ "message" \in DOMAIN Returned =>
        /\ At(Returned["message"], 1, 3) # "==="
        /\ HeaderLines # {} =>
               LET header == Trimmed(Min(HeaderLines))
               IN  Returned["message"] #
                       IF Len(header) > 100 THEN SubSeq(header, 1, 100) \o "..." ELSE header

\* C15: the last return of determine_status is never taken: a text that passes
\* the three loops with no match holds neither "erro" nor "error" in any letter
\* case and gets OK, and every FAIL comes from a match of a failure pattern.
C15_FinalFailUnreachable ==
    Called =>
        /\ ~HasSuccessMarker /\ ~HasFailureMarker /\ ~HasPendingMarker
               => /\ ~Contains(lower(text), "erro")
                  /\ ~Contains(lower(text), "error")
                  /\ Returned["status"] = "OK"
        /\ Returned["status"] = "FAIL" => HasFailureMarker

\* a text that passes the three loops with no match and reaches the default
C15_Witness ==
    /\ Called
    /\ text = "tudo bem" \o "DataCad: 1"
    /\ ~HasSuccessMarker /\ ~HasFailureMarker /\ ~HasPendingMarker
    /\ Returned["status"] = "OK"

----------------------------------------------------------------------------
(* Properties of repeated calls, under SpecRepeat *)

----------------------------------------------------------------------------
(* Properties of the store, under Spec *)

\* the row the last add_real_log or force_execution inserted
Incoming == logs'[Len(logs')]

\* C6: a write of last_status and last_run is applied only when the incoming
\* timestamp is not older than the stored last_run: add_real_log and
\* force_execution leave both alone for an older record, and after seed_mock_data
\* no record of the sample data is newer than its automation's last_run.
C6_LastWriterWins ==
    [][/\ \A n \in DOMAIN automations :
              /\ console'.op \in {"add_real_log", "force_execution"}
              /\ console'.out = "ok"
              /\ console'.arg = n
              /\ logs' # logs
              /\ automations[n].last_run # Null
              /\ text_less(Incoming.timestamp, automations[n].last_run)
              => /\ automations'[n].last_run = automations[n].last_run
                 /\ automations'[n].last_status = automations[n].last_status
       /\ console'.op = "seed_mock_data" /\ seeded' # seeded
              => \A i \in DOMAIN mock_logs :
                    /\ automations'[mock_logs[i].automation].last_run # Null
                    /\ ~text_less(automations'[mock_logs[i].automation].last_run,
                                  mock_logs[i].timestamp)
      ]_vars

\* C7: add_real_log or force_execution with a name that is not in table
\* automations reports "not found" and changes neither table.
C7_UnknownJob ==
    [][console'.op \in {"add_real_log", "force_execution"}
          /\ console'.arg \notin DOMAIN automations
          => /\ console'.out = "not_found"
             /\ automations' = automations
             /\ logs' = logs
      ]_vars

\* an unknown name given to add_real_log with both tables filled
C7_Witness ==
    /\ console = Report("add_real_log", "X9", "not_found")
    /\ DOMAIN automations # {}
    /\ Len(logs) > Len(mock_logs)

\* C8: table logs only grows at its end: every row of a state is the same row, at
\* the same place, in the next state.
C8_AppendOnly ==
    [][/\ Len(logs') >= Len(logs)
       /\ SubSeq(logs', 1, Len(logs)) = logs
      ]_vars

\* rows added by the sample data, by add_real_log and by force_execution, then read
C8_Witness ==
    /\ seeded > 0
    /\ appended = MaxAppends
    /\ \E i, j \in DOMAIN logs : i < j /\ logs[i].automation = logs[j].automation
                                   /\ j > Len(mock_logs)
    /\ console.op = "tail_logs"

\* C14: add_real_log for a name in table automations appends exactly one row to
\* table logs, for that name, with the status the parser returned for the text
\* (and its execution date and its message when it returned them), and in the
\* same step sets the automation's last_status and last_run to the status and
\* timestamp of that row.
C14_AddRealLog ==
    [][\A name \in JobInputs, log \in LogInputs :
          add_real_log(name, log) /\ name \in DOMAIN automations =>
              LET result == log_parser[log]
                  added  == logs'[Len(logs')]
              IN  /\ Len(logs') = Len(logs) + 1
                  /\ SubSeq(logs', 1, Len(logs)) = logs
                  /\ added.automation = name
                  /\ added.status = result["status"]
                  /\ "execution_date" \in DOMAIN result
                         => added.timestamp = result["execution_date"]
                  /\ "message" \in DOMAIN result => added.message = result["message"]
                  /\ automations'[name].last_status = added.status
                  /\ automations'[name].last_run = added.timestamp
      ]_vars

\* a log with a header of 25 December given for NF2 after the sample data
C14_Witness ==
    /\ console = Report("add_real_log", "NF2", "ok")
    /\ Len(logs) = Len(mock_logs) + 1
    /\ logs[Len(logs)] = LogRow("NF2", "2025-12-25 21:23:06", "PENDING", "Processando")
    /\ automations["NF2"].last_status = "PENDING"
    /\ automations["NF2"].last_run = "2025-12-25 21:23:06"

\* C16: in every state, an automation whose last_status is not NONE has a row
\* in table logs with its name, its last_run as timestamp and its last_status as
\* status.
C16_RegistryHistoryConsistent ==
    \A n \in DOMAIN automations :
        automations[n].last_status # "NONE" =>
            \E i \in DOMAIN logs :
                /\ logs[i].automation = n
                /\ logs[i].timestamp = automations[n].last_run
                /\ logs[i].status = automations[n].last_status

\* after the sample data, a forced execution and a real log: NF2 stands at the
\* older of its rows the real log added, C1 at the forced one, CAT1 at its sample
\* row, and P1 has never run
C16_Witness ==
    /\ seeded > 0
    /\ appended = 2
    /\ automations["NF2"].last_run = "2025-08-20 09:23:03"
    /\ automations["C1"].last_run = ClockTicks[1]
    /\ automations["CAT1"].last_status = "OK"
    /\ automations["P1"].last_status = "NONE"

\* C17: add_real_log and force_execution for a name leave the row of every other
\* automation as it was, add no automation, append no row of table logs for
\* another name, and leave the schedule and behavior of the named one.
C17_Frame ==
    [][\A name \in JobInputs :
          (\E log \in LogInputs : add_real_log(name, log)) \/ force_execution(name) =>
              /\ DOMAIN automations' = DOMAIN automations
              /\ \A n \in DOMAIN automations \ {name} : automations'[n] = automations[n]
              /\ name \in DOMAIN automations =>
                     /\ automations'[name].schedule = automations[name].schedule
                     /\ automations'[name].behavior = automations[name].behavior
              /\ \A i \in DOMAIN logs' :
                     i > Len(logs) => logs'[i].automation = name
      ]_vars

\* a forced execution of C1 beside rows of sixteen other automations
C17_Witness ==
    /\ console = Report("force_execution", "C1", "ok")
    /\ logs[Len(logs)].automation = "C1"
    /\ logs[Len(logs)].timestamp = ClockTicks[Len(ClockTicks)]
    /\ automations["C1"].last_run = ClockTicks[Len(ClockTicks)]
    /\ automations["C1"].schedule = "0 8 * * *"
    /\ automations["NF1"].last_run = "2025-08-29 10:00:00"
    /\ Cardinality(DOMAIN automations) > 1

====
